---- MODULE Spec2Model ----
(***************************************************************************)
(* A model of the two programs of the repository:                          *)
(*   scripts/telegram_api.py  the Command Router (one process per run)     *)
(*   scripts/web_login.py     the Login Rendezvous Server (two threads)    *)
(* Python strings that the code takes apart (argument tokens, argument     *)
(* names, codes) are sequences of one-character strings; strings that are  *)
(* only compared (command names, message literals) are TLA+ strings.       *)
(***************************************************************************)
EXTENDS Integers, Sequences, FiniteSets, TLC

VARIABLES
    \* ---- Command Router (telegram_api.py) ----
    rpc,          \* position of the router process
    cmd_name,     \* sys.argv[1], or NoCommand when len(sys.argv) < 2
    args,         \* sys.argv[2:]
    telethon,     \* TRUE iff the client library can be imported
    environ,      \* os.environ after load_env: the three credential variables
    positional,   \* main: positional
    flags,        \* main: flags
    kwargs,       \* main: kwargs
    step,         \* index of the next statement of the operation's try body
    authorized,   \* what is_user_authorized returned
    exc,          \* the exception in flight ("none" when there is none)
    stdout,       \* what has been printed to standard output
    calls,        \* the library calls made, in order
    constructed,  \* number of TelegramClient objects constructed
    acquired,     \* the operation holds a client handle
    disconnects,  \* number of client.disconnect() calls
    exitCode,     \* process exit status, Running while it runs
    env_files,    \* the two .env files load_env looks for: their lines, or NoFile
    environ0,     \* os.environ when the process started (history)
    opened,       \* the .env files load_env has opened, in order (history)
    dialogs,      \* what client.iter_dialogs() yields
    matches,      \* cmd_lookup_group: matches
    me,           \* the user record get_me returned
    users,        \* cmd_create_group: users
    \* ---- Login Rendezvous Server (web_login.py) ----
    status,       \* the shared status dict: state and message
    code_file,    \* the mailbox file: whether it exists, its content, the write it holds
    fd,           \* do_POST's open file object: "closed", "linked" or "unlinked"
    posted,       \* the codes do_POST has written, in order, and whether the
                  \* background thread was in wait_for_code at the write (history)
    delivered,    \* what wait_for_code has returned: code and the write it came from (history)
    mpc,          \* position of the foreground thread
    phase,        \* which loop called handle_request: "while" or "for"
    extra,        \* iterations of the for loop started so far
    code,         \* do_POST: code
    polls,        \* do_POST: iterations of the polling loop done so far
    pages,        \* HTML pages written for the request being handled or last handled
    page,         \* the last page written
    served,       \* requests accepted while the background thread was alive
    afterDeath,   \* requests accepted after the background thread ended (history)
    tpc,          \* position of the background thread
    tcode,        \* wait_for_code: code, with the write it was read from
    ncallbacks,   \* times the library has called wait_for_code
    texc,         \* how the background thread ended: "none", "caught" or "uncaught"
    terr,         \* the library step whose exception ended telegram_login
    diedIdle,     \* the thread ended while the while loop was blocked in handle_request
    stale         \* the startup cleanup found a mailbox file of an earlier run (history)

\* what a run of the router is given, and never changes
inputVars == <<env_files, environ0, dialogs>>
\* locals of the operations and of load_env
localVars == <<opened, matches, me, users>>

routerVars == <<rpc, cmd_name, args, telethon, environ, positional, flags, kwargs,
                step, authorized, exc, stdout, calls, constructed, acquired,
                disconnects, exitCode, inputVars, localVars>>

mainVars == <<mpc, phase, extra, code, polls, pages, page, served, afterDeath, stale>>
bgVars == <<tpc, tcode, ncallbacks, texc, terr, diedIdle>>
sharedVars == <<status, code_file, fd, posted, delivered>>
loginVars == <<mainVars, bgVars, sharedVars>>

vars == <<routerVars, loginVars>>

-----------------------------------------------------------------------------
(* Bounds of the model *)

\* longest argument list when the environment is complete
MaxArgs == 3
\* longest argument list when the environment varies
MaxArgsEnv == 2
\* requests that arrive while the background thread is alive
MaxRequests == 2
\* POST requests that carry a non-empty code
MaxPosts == 2
\* times the library asks for a code during one start()
MaxCallbacks == 2
\* lines of the session-directory .env file
MaxLines == 2
\* dialogs that iter_dialogs yields
MaxDialogs == 2

-----------------------------------------------------------------------------
(* Python str operations, on sequences of characters *)

Digits == {"0", "1", "2", "3", "4", "5", "6", "7", "8", "9"}

\* s.startswith(p)
StartsWith(s, p) == Len(s) >= Len(p) /\ SubSeq(s, 1, Len(p)) = p

\* c in s
Contains(s, c) == \E i \in 1..Len(s) : s[i] = c

\* s[n:]
Drop(s, n) == SubSeq(s, n + 1, Len(s))

\* s.split(c, 1) for a string that contains c
SplitOnce(s, c) ==
    LET i == CHOOSE j \in 1..Len(s) : s[j] = c /\ \A k \in 1..(j - 1) : s[k] # c
    IN  <<SubSeq(s, 1, i - 1), SubSeq(s, i + 1, Len(s))>>

\* s.replace(a, b) for single characters
Replace(s, a, b) == [i \in 1..Len(s) |-> IF s[i] = a THEN b ELSE s[i]]

\* s.lstrip(c)
RECURSIVE LStrip(_, _)
LStrip(s, c) == IF s # <<>> /\ s[1] = c THEN LStrip(Tail(s), c) ELSE s

\* s.strip() (whitespace is the character " ")
RECURSIVE RStrip(_, _)
RStrip(s, c) == IF s # <<>> /\ s[Len(s)] = c THEN RStrip(SubSeq(s, 1, Len(s) - 1), c) ELSE s

Strip(s) == RStrip(LStrip(s, " "), " ")

\* ', '.join(names)
RECURSIVE JoinComma(_)
JoinComma(names) ==
    IF names = <<>> THEN <<>>
    ELSE IF Len(names) = 1 THEN names[1]
    ELSE names[1] \o <<",", " ">> \o JoinComma(Tail(names))

\* int(s) succeeds: optional sign, then digits with single underscores between them
IsPyInt(s0) ==
    LET s == Strip(s0)
        d == IF s # <<>> /\ s[1] \in {"-", "+"} THEN Tail(s) ELSE s
    IN  /\ d # <<>>
        /\ \A i \in 1..Len(d) : d[i] \in Digits \cup {"_"}
        /\ d[1] \in Digits /\ d[Len(d)] \in Digits
        /\ \A i \in 1..(Len(d) - 1) : ~(d[i] = "_" /\ d[i + 1] = "_")

DigitValue(c) ==
    CASE c = "0" -> 0 [] c = "1" -> 1 [] c = "2" -> 2 [] c = "3" -> 3 [] c = "4" -> 4
      [] c = "5" -> 5 [] c = "6" -> 6 [] c = "7" -> 7 [] c = "8" -> 8 [] c = "9" -> 9

RECURSIVE DigitsValue(_, _)
DigitsValue(d, acc) ==
    IF d = <<>> THEN acc
    ELSE IF d[1] = "_" THEN DigitsValue(Tail(d), acc)
    ELSE DigitsValue(Tail(d), 10 * acc + DigitValue(d[1]))

\* int(s) for a string int() accepts
PyInt(s0) ==
    LET s == Strip(s0)
    IN  IF s[1] = "-" THEN 0 - DigitsValue(Tail(s), 0)
        ELSE IF s[1] = "+" THEN DigitsValue(Tail(s), 0)
        ELSE DigitsValue(s, 0)

-----------------------------------------------------------------------------
(* Python values held in flags and kwargs *)

StrV(s) == [t |-> "str", s |-> s, n |-> 0]
IntV(n) == [t |-> "int", s |-> <<>>, n |-> n]
NoneV == [t |-> "none", s |-> <<>>, n |-> 0]

\* bool(v)
Truthy(v) ==
    CASE v.t = "str" -> v.s # <<>>
      [] v.t = "int" -> v.n # 0
      [] v.t = "none" -> FALSE

\* d[k] = v on a dict held as a function
Put(d, k, v) == [x \in DOMAIN d \cup {k} |-> IF x = k THEN v ELSE d[x]]

EmptyDict == [x \in {} |-> NoneV]

-----------------------------------------------------------------------------
(* The command table *)

N_title == <<"t", "i", "t", "l", "e">>
N_bot_username == <<"b", "o", "t", "_", "u", "s", "e", "r", "n", "a", "m", "e">>
N_limit == <<"l", "i", "m", "i", "t">>
N_name == <<"n", "a", "m", "e">>
N_chat_id == <<"c", "h", "a", "t", "_", "i", "d">>
N_text == <<"t", "e", "x", "t">>
N_username == <<"u", "s", "e", "r", "n", "a", "m", "e">>
N_photo_path == <<"p", "h", "o", "t", "o", "_", "p", "a", "t", "h">>

DefaultLimit == 20

CommandNames ==
    {"check-session", "get-me", "create-group", "list-groups", "lookup-group",
     "send-message", "add-member", "get-members", "set-group-photo", "leave-group",
     "get-chat-info"}

\* entry[1] if len(entry) > 1 else []
Required(c) ==
    CASE c = "create-group" -> <<N_title>>
      [] c = "lookup-group" -> <<N_name>>
      [] c = "send-message" -> <<N_chat_id, N_text>>
      [] c = "add-member" -> <<N_chat_id, N_username>>
      [] c = "get-members" -> <<N_chat_id>>
      [] c = "set-group-photo" -> <<N_chat_id, N_photo_path>>
      [] c = "leave-group" -> <<N_chat_id>>
      [] c = "get-chat-info" -> <<N_chat_id>>
      [] OTHER -> <<>>

\* entry[2] if len(entry) > 2 else {}, as the list of its (key, value) pairs
Defaults(c) ==
    CASE c = "create-group" -> << <<N_bot_username, NoneV>> >>
      [] c = "list-groups" -> << <<N_limit, IntV(DefaultLimit)>> >>
      [] OTHER -> <<>>

HelpNames == {"-h", "--help", "help"}
NoCommand == "<none>"

-----------------------------------------------------------------------------
(* main(): argument parsing *)

\* the while loop of main over args, from index i on (1-based)
RECURSIVE ParseArgs(_, _, _, _)
ParseArgs(a, i, pos, fl) ==
    IF i > Len(a) THEN [positional |-> pos, flags |-> fl]
    ELSE IF StartsWith(a[i], <<"-", "-">>) /\ Contains(a[i], "=")
    THEN LET kv == SplitOnce(Drop(a[i], 2), "=")
         IN  ParseArgs(a, i + 1, pos, Put(fl, Replace(kv[1], "-", "_"), StrV(kv[2])))
    ELSE IF StartsWith(a[i], <<"-", "-">>) /\ i + 1 <= Len(a)
    THEN ParseArgs(a, i + 2, pos, Put(fl, Replace(Drop(a[i], 2), "-", "_"), StrV(a[i + 1])))
    ELSE ParseArgs(a, i + 1, Append(pos, a[i]), fl)

\* dict(defaults)
DictOf(pairs) ==
    [k \in {pairs[i][1] : i \in 1..Len(pairs)} |->
        (CHOOSE p \in {pairs[i] : i \in 1..Len(pairs)} : p[1] = k)[2]]

\* positional, flags as main leaves them
Parse(c, a) == ParseArgs(a, 1, <<>>, DictOf(Defaults(c)))

\* mutant of MissingNames: required[len(positional) - 1:] for a non-empty positional
MissingNames_OffByOne(required, pos) ==
    SubSeq(required, IF Len(pos) > 0 THEN Len(pos) ELSE 1, Len(required))

\* required[len(positional):]
MissingNames(required, pos) == SubSeq(required, Len(pos) + 1, Len(required))

SeqRange(s) == {s[i] : i \in 1..Len(s)}

\* mutant of BuildKwargs: every flag is passed on, whatever its key
BuildKwargs_AllFlags(required, defaults, pos, fl) ==
    LET optional_names == [i \in 1..Len(defaults) |-> defaults[i][1]]
        rest == Drop(pos, Len(required))
        reqIdx == {i \in 1..Len(required) : i <= Len(pos)}
        optIdx == {i \in 1..Len(rest) : i <= Len(optional_names)}
        fromPos == [k \in {required[i] : i \in reqIdx} |->
                       StrV(pos[CHOOSE i \in reqIdx : required[i] = k])]
        fromOpt == [k \in {optional_names[i] : i \in optIdx} |->
                       StrV(rest[CHOOSE i \in optIdx : optional_names[i] = k])]
    IN  [k \in DOMAIN fromPos \cup DOMAIN fromOpt \cup DOMAIN fl |->
            IF k \in DOMAIN fl THEN fl[k]
            ELSE IF k \in DOMAIN fromOpt THEN fromOpt[k]
            ELSE fromPos[k]]

\* mutant of BuildKwargs: a flag does not replace a value assigned from a positional
BuildKwargs_PositionalWins(required, defaults, pos, fl) ==
    LET optional_names == [i \in 1..Len(defaults) |-> defaults[i][1]]
        rest == Drop(pos, Len(required))
        reqIdx == {i \in 1..Len(required) : i <= Len(pos)}
        optIdx == {i \in 1..Len(rest) : i <= Len(optional_names)}
        fromPos == [k \in {required[i] : i \in reqIdx} |->
                       StrV(pos[CHOOSE i \in reqIdx : required[i] = k])]
        fromOpt == [k \in {optional_names[i] : i \in optIdx} |->
                       StrV(rest[CHOOSE i \in optIdx : optional_names[i] = k])]
        overriding == {k \in DOMAIN fl : k \in SeqRange(optional_names) \/ k \in SeqRange(required)}
    IN  [k \in DOMAIN fromPos \cup DOMAIN fromOpt \cup overriding |->
            IF k \in DOMAIN fromPos THEN fromPos[k]
            ELSE IF k \in DOMAIN fromOpt THEN fromOpt[k]
            ELSE fl[k]]

\* the three loops that build kwargs
BuildKwargs(required, defaults, pos, fl) ==
    LET optional_names == [i \in 1..Len(defaults) |-> defaults[i][1]]
        rest == Drop(pos, Len(required))
        reqIdx == {i \in 1..Len(required) : i <= Len(pos)}
        optIdx == {i \in 1..Len(rest) : i <= Len(optional_names)}
        fromPos == [k \in {required[i] : i \in reqIdx} |->
                       StrV(pos[CHOOSE i \in reqIdx : required[i] = k])]
        fromOpt == [k \in {optional_names[i] : i \in optIdx} |->
                       StrV(rest[CHOOSE i \in optIdx : optional_names[i] = k])]
        overriding == {k \in DOMAIN fl : k \in SeqRange(optional_names) \/ k \in SeqRange(required)}
    IN  [k \in DOMAIN fromPos \cup DOMAIN fromOpt \cup overriding |->
            IF k \in overriding THEN fl[k]
            ELSE IF k \in DOMAIN fromOpt THEN fromOpt[k]
            ELSE fromPos[k]]

\* int(kwargs["limit"]) does not raise
LimitConvertible(kw) ==
    N_limit \in DOMAIN kw =>
        \/ kw[N_limit].t = "int"
        \/ kw[N_limit].t = "str" /\ IsPyInt(kw[N_limit].s)

\* kwargs after "Convert types"
ConvertTypes(kw) ==
    IF N_limit \in DOMAIN kw /\ kw[N_limit].t = "str"
    THEN Put(kw, N_limit, IntV(PyInt(kw[N_limit].s)))
    ELSE kw

-----------------------------------------------------------------------------
(* What is printed *)

\* print(json.dumps({...}))
Json(ok, error, detail, hint, result) ==
    [kind |-> "json", ok |-> ok, error |-> error, detail |-> detail, hint |-> hint,
     result |-> result]

\* print_usage()
UsageText ==
    [kind |-> "usage", ok |-> FALSE, error |-> "", detail |-> <<>>, hint |-> FALSE,
     result |-> ""]

JsonCount == Cardinality({i \in 1..Len(stdout) : stdout[i].kind = "json"})

Running == 0 - 1

\* mutant of ExitCodeAfterRun: the exception is swallowed and the status stays 0
ExitCodeAfterRun_Zero(e) == IF e = "none" THEN 0 ELSE 0

\* the interpreter's exit status once asyncio.run(func(**kwargs)) is over
ExitCodeAfterRun(e) == IF e = "none" THEN 0 ELSE 1

-----------------------------------------------------------------------------
(* The operations: the statements of each try body, in order *)

Stmt(k, f) == [k |-> k, f |-> f]

Body(c) ==
    CASE c = "check-session" ->
            <<Stmt("call", "connect"), Stmt("authq", "is_user_authorized"),
              Stmt("call_if_auth", "get_me"), Stmt("output_ok", "")>>
      [] c = "get-me" ->
            <<Stmt("call", "start"), Stmt("call", "get_me"), Stmt("output_ok", "")>>
      [] c = "create-group" ->
            <<Stmt("call", "start"), Stmt("bot_lookup", "get_entity"),
              Stmt("call", "CreateChatRequest"), Stmt("output_ok", "")>>
      [] c = "list-groups" ->
            <<Stmt("call", "start"), Stmt("call", "iter_dialogs"), Stmt("output_ok", "")>>
      [] c = "lookup-group" ->
            <<Stmt("call", "start"), Stmt("scan", "iter_dialogs"), Stmt("output_ok", "")>>
      [] c = "send-message" ->
            <<Stmt("call", "start"), Stmt("int_chat_id", ""),
              Stmt("call", "send_message"), Stmt("output_ok", "")>>
      [] c = "add-member" ->
            <<Stmt("call", "start"), Stmt("int_chat_id", ""), Stmt("call", "get_entity"),
              Stmt("call", "AddChatUserRequest"), Stmt("output_ok", "")>>
      [] c = "get-members" ->
            <<Stmt("call", "start"), Stmt("int_chat_id", ""), Stmt("call", "get_entity"),
              Stmt("call", "get_participants"), Stmt("output_ok", "")>>
      [] c = "set-group-photo" ->
            <<Stmt("call", "start"), Stmt("int_chat_id", ""), Stmt("photo_exists", ""),
              Stmt("call", "upload_file"), Stmt("call", "EditChatPhotoRequest"),
              Stmt("output_ok", "")>>
      [] c = "leave-group" ->
            <<Stmt("call", "start"), Stmt("int_chat_id", ""), Stmt("call", "get_me"),
              Stmt("call", "DeleteChatUserRequest"), Stmt("output_ok", "")>>
      [] c = "get-chat-info" ->
            <<Stmt("call", "start"), Stmt("int_chat_id", ""), Stmt("call", "get_entity"),
              Stmt("call_caught", "get_participants"), Stmt("output_ok", "")>>

\* the operations that import from telethon.tl before get_client()
HasLocalImport(c) ==
    c \in {"create-group", "list-groups", "lookup-group", "add-member",
           "set-group-photo", "leave-group"}

Cur == Body(cmd_name)[step]

-----------------------------------------------------------------------------
(* load_env(): the .env files *)

CredNames == <<"TELEGRAM_API_ID", "TELEGRAM_API_HASH", "TELEGRAM_PHONE">>

K_ID == <<"T", "E", "L", "E", "G", "R", "A", "M", "_", "A", "P", "I", "_", "I", "D">>
K_HASH == <<"T", "E", "L", "E", "G", "R", "A", "M", "_", "A", "P", "I", "_", "H", "A", "S", "H">>
K_PHONE == <<"T", "E", "L", "E", "G", "R", "A", "M", "_", "P", "H", "O", "N", "E">>

\* the characters of a variable name
Chars(name) ==
    CASE name = "TELEGRAM_API_ID" -> K_ID
      [] name = "TELEGRAM_API_HASH" -> K_HASH
      [] name = "TELEGRAM_PHONE" -> K_PHONE

\* a file is there with these lines (each without its newline, which strip() removes),
\* or it is not there
EnvFile(lines) == [exists |-> TRUE, lines |-> lines]
NoFile == [exists |-> FALSE, lines |-> <<>>]
NoEnvFiles == [session |-> NoFile, base |-> NoFile]

\* env_locations, in order
EnvLocations == <<"session", "base">>

\* mutant of LoadLine: the value is assigned whether or not the key is in os.environ
LoadLine_Overrides(env, line0) ==
    LET line == Strip(line0)
    IN  IF Contains(line, "=") /\ ~StartsWith(line, <<"#">>)
        THEN LET kv == SplitOnce(line, "=")
                 key == Strip(kv[1])
                 val == Strip(kv[2])
             IN  IF \E i \in 1..3 : Chars(CredNames[i]) = key
                 THEN [env EXCEPT ![CHOOSE n \in {CredNames[i] : i \in 1..3} :
                                        Chars(n) = key] = StrV(val)]
                 ELSE env
        ELSE env

\* the body of "for line in f", on os.environ held as env; env holds the three
\* credential variables, and a line with another key leaves these three alone
LoadLine(env, line0) ==
    LET line == Strip(line0)
    IN  IF Contains(line, "=") /\ ~StartsWith(line, <<"#">>)
        THEN LET kv == SplitOnce(line, "=")
                 key == Strip(kv[1])
                 val == Strip(kv[2])
             IN  IF \E i \in 1..3 : Chars(CredNames[i]) = key /\ env[CredNames[i]] = NoneV
                 THEN [env EXCEPT ![CHOOSE n \in {CredNames[i] : i \in 1..3} :
                                        Chars(n) = key] = StrV(val)]
                 ELSE env
        ELSE env

\* for line in f
RECURSIVE LoadLines(_, _)
LoadLines(env, lines) ==
    IF lines = <<>> THEN env ELSE LoadLines(LoadLine(env, lines[1]), Tail(lines))

\* the locations load_env opens: the first of env_locations that exists, then break
FirstExisting(files) ==
    IF files[EnvLocations[1]].exists THEN <<EnvLocations[1]>>
    ELSE IF files[EnvLocations[2]].exists THEN <<EnvLocations[2]>>
    ELSE <<>>

\* os.environ after load_env()
LoadedEnv(env, files) ==
    IF FirstExisting(files) = <<>> THEN env
    ELSE LoadLines(env, files[FirstExisting(files)[1]].lines)

-----------------------------------------------------------------------------
(* cmd_lookup_group: the match *)

UpperLetters == <<"A", "B", "C", "D", "E", "F", "G", "H", "I", "J", "K", "L", "M", "N", "O", "P", "Q", "R", "S", "T", "U", "V", "W", "X", "Y", "Z">>
LowerLetters == <<"a", "b", "c", "d", "e", "f", "g", "h", "i", "j", "k", "l", "m", "n", "o", "p", "q", "r", "s", "t", "u", "v", "w", "x", "y", "z">>

LowerChar(c) ==
    IF \E i \in 1..Len(UpperLetters) : UpperLetters[i] = c
    THEN LowerLetters[CHOOSE i \in 1..Len(UpperLetters) : UpperLetters[i] = c]
    ELSE c

\* mutant of Lower: the string is compared as it is
Lower_AsIs(s) == s

\* s.lower()
Lower(s) == [i \in 1..Len(s) |-> LowerChar(s[i])]

\* q in t, for strings
IsSubstring(q, t) == \E i \in 0..(Len(t) - Len(q)) : SubSeq(t, i + 1, i + Len(q)) = q

\* dialog.title or ""
TitleOrEmpty(title) == IF Truthy(title) THEN title.s ELSE <<>>

\* isinstance(entity, (Chat, Channel))
IsGroupEntity(d) == d.kind \in {"Chat", "Channel"}

\* the dict appended to matches
MatchOf(d) ==
    [title |-> d.title, chat_id |-> d.id,
     type |-> IF d.kind = "Channel" THEN "channel" ELSE "group"]

\* matches after the async for over the dialogs ds
LookupMatches(name, ds) ==
    LET sel == SelectSeq(ds, LAMBDA d :
                   IsGroupEntity(d) /\ IsSubstring(Lower(name), Lower(TitleOrEmpty(d.title))))
    IN  [i \in 1..Len(sel) |-> MatchOf(sel[i])]

\* no user record yet
NoUser == [id |-> 0, username |-> NoneV]

-----------------------------------------------------------------------------
(* Inputs of a run of the router *)

T_a == <<"a">>
T_7 == <<"7">>
T_limit == <<"-", "-", "l", "i", "m", "i", "t">>
T_chat_id == <<"-", "-", "c", "h", "a", "t", "-", "i", "d">>
T_chat_id_eq == <<"-", "-", "c", "h", "a", "t", "-", "i", "d", "=", "7">>
T_bot_username == <<"-", "-", "b", "o", "t", "-", "u", "s", "e", "r", "n", "a", "m", "e">>

Tokens == {T_a, T_7, T_limit, T_chat_id, T_chat_id_eq, T_bot_username}
PlainTokens == {T_a, T_7}

SeqsUpTo(S, n) == UNION {[1..k -> S] : k \in 0..n}

CompleteEnv ==
    [TELEGRAM_API_ID |-> StrV(<<"7">>), TELEGRAM_API_HASH |-> StrV(<<"a">>),
     TELEGRAM_PHONE |-> StrV(<<"a">>)]

\* os.environ.get gives None, or a string that may be empty; only the id is converted
Environs ==
    [TELEGRAM_API_ID : {NoneV, StrV(<<>>), StrV(<<"7">>), StrV(<<"a">>)},
     TELEGRAM_API_HASH : {NoneV, StrV(<<>>), StrV(<<"a">>)},
     TELEGRAM_PHONE : {NoneV, StrV(<<>>), StrV(<<"a">>)}]

Argv1 == CommandNames \cup HelpNames \cup {"bogus", NoCommand}

\* --req1=X and --req1, for the argument name req1
FlagEq(name, v) == <<"-", "-">> \o Replace(name, "_", "-") \o <<"=">> \o v
FlagSp(name) == <<"-", "-">> \o Replace(name, "_", "-")

\* the values a positional and a flag are given: plain ones, one that starts with "--",
\* and one of the form --key=value
OverrideValues == {T_a, T_7, T_limit, T_chat_id_eq}

\* the names that are the single required argument of a command
SingleNames == {N_title, N_name, N_chat_id}

\* a positional with a flag of a required name after it or before it
OverrideArgs ==
    UNION {{<<t[2], FlagEq(t[1], t[3])>>, <<t[2], FlagSp(t[1]), t[3]>>,
            <<FlagEq(t[1], t[3]), t[2]>>} :
           t \in SingleNames \X OverrideValues \X OverrideValues}

\* lines of a .env file: an assignment, a second assignment to the same key with
\* blanks around key and value, a comment, a line without "=", a value that holds
\* "=", an empty value, and an assignment to the hash
Line_id == K_ID \o <<"=", "7">>
Line_id_blanks == <<" ">> \o K_ID \o <<" ", "=", " ", "8", " ">>
Line_comment == <<"#">> \o K_PHONE \o <<"=", "a">>
Line_no_eq == K_PHONE
Line_phone == K_PHONE \o <<"=", "a", "=", "b">>
Line_hash_empty == K_HASH \o <<"=">>
Line_hash == K_HASH \o <<"=", "a">>

EnvLines == {Line_id, Line_id_blanks, Line_comment, Line_no_eq, Line_phone,
             Line_hash_empty, Line_hash}

\* the session-directory file is absent or holds up to MaxLines lines; the
\* base-directory file is absent or sets all three variables
EnvFileSets ==
    [session : {NoFile} \cup {EnvFile(l) : l \in SeqsUpTo(EnvLines, MaxLines)},
     base : {NoFile, EnvFile(<<Line_id_blanks, Line_hash, Line_phone>>)}]

\* os.environ at the start: nothing set, the id set, or the phone set to the empty
\* string and the hash set
StartEnvirons ==
    {[TELEGRAM_API_ID |-> NoneV, TELEGRAM_API_HASH |-> NoneV, TELEGRAM_PHONE |-> NoneV],
     [TELEGRAM_API_ID |-> StrV(<<"9">>), TELEGRAM_API_HASH |-> NoneV,
      TELEGRAM_PHONE |-> NoneV],
     [TELEGRAM_API_ID |-> NoneV, TELEGRAM_API_HASH |-> StrV(<<"a">>),
      TELEGRAM_PHONE |-> StrV(<<>>)]}

\* dialogs of the account: two groups, one of them a channel, a group without a
\* title, and a private chat whose title would match
D_family == [id |-> 1, title |-> StrV(<<"F", "a", "m", "i", "l", "y", " ", "C", "h", "a", "t">>), kind |-> "Chat"]
D_work == [id |-> 2, title |-> StrV(<<"W", "o", "r", "k", " ", "G", "r", "o", "u", "p">>), kind |-> "Channel"]
D_untitled == [id |-> 3, title |-> NoneV, kind |-> "Chat"]
D_user == [id |-> 4, title |-> StrV(<<"F", "a", "m">>), kind |-> "User"]

DialogPool == {D_family, D_work, D_untitled, D_user}

Q_fam == <<"f", "a", "m">>
Q_FAM == <<"F", "A", "M">>
Q_xyz == <<"x", "y", "z">>

\* the names looked up; the empty string is a name too
Queries == {Q_fam, Q_FAM, Q_xyz, T_a, <<>>}

\* the usernames that get_entity resolves; for any other it raises
KnownUsernames == {T_a}

\* the user records get_me can return; a user may have no username
Users == {[id |-> 7, username |-> StrV(<<"a">>)], [id |-> 8, username |-> NoneV]}

RouterInit ==
    /\ rpc = "main"
    /\ cmd_name \in Argv1
    /\ telethon \in BOOLEAN
    /\ \/ /\ args \in SeqsUpTo(Tokens, MaxArgs) \cup OverrideArgs
          /\ environ = CompleteEnv /\ env_files = NoEnvFiles /\ dialogs = <<>>
       \/ /\ args \in SeqsUpTo(PlainTokens, MaxArgsEnv)
          /\ environ \in Environs /\ env_files = NoEnvFiles /\ dialogs = <<>>
       \/ /\ cmd_name = "check-session" /\ telethon /\ args = <<>>
          /\ environ \in StartEnvirons /\ env_files \in EnvFileSets /\ dialogs = <<>>
       \/ /\ cmd_name = "lookup-group" /\ telethon /\ args \in {<<q>> : q \in Queries}
          /\ environ = CompleteEnv /\ env_files = NoEnvFiles
          /\ dialogs \in SeqsUpTo(DialogPool, MaxDialogs)
    /\ cmd_name = NoCommand => args = <<>>
    /\ environ0 = environ
    /\ opened = <<>>
    /\ matches = <<>>
    /\ me = NoUser
    /\ users = <<>>
    /\ positional = <<>>
    /\ flags = EmptyDict
    /\ kwargs = EmptyDict
    /\ step = 1
    /\ authorized = FALSE
    /\ exc = "none"
    /\ stdout = <<>>
    /\ calls = <<>>
    /\ constructed = 0
    /\ acquired = FALSE
    /\ disconnects = 0
    /\ exitCode = Running

-----------------------------------------------------------------------------
(* main() *)

\* sys.exit(code) / the end of the process
Exit(c) == rpc' = "exit" /\ exitCode' = c

\* len(sys.argv) < 2 or sys.argv[1] in ("-h", "--help", "help")
MainUsage ==
    /\ rpc = "main"
    /\ cmd_name = NoCommand \/ cmd_name \in HelpNames
    /\ stdout' = Append(stdout, UsageText)
    /\ Exit(0)
    /\ UNCHANGED <<cmd_name, args, telethon, environ, positional, flags, kwargs, step,
                   authorized, exc, calls, constructed, acquired, disconnects>>
    /\ UNCHANGED <<inputVars, localVars, loginVars>>

\* cmd_name not in COMMANDS
MainUnknown ==
    /\ rpc = "main"
    /\ cmd_name # NoCommand /\ cmd_name \notin HelpNames
    /\ cmd_name \notin CommandNames
    /\ stdout' = Append(stdout, Json(FALSE, "Unknown command", <<cmd_name>>, FALSE, ""))
    /\ Exit(1)
    /\ UNCHANGED <<cmd_name, args, telethon, environ, positional, flags, kwargs, step,
                   authorized, exc, calls, constructed, acquired, disconnects>>
    /\ UNCHANGED <<inputVars, localVars, loginVars>>

\* len(positional) < len(required)
MainMissingArgs ==
    /\ rpc = "main"
    /\ cmd_name \in CommandNames
    /\ LET p == Parse(cmd_name, args)
       IN  /\ Len(p.positional) < Len(Required(cmd_name))
           /\ positional' = p.positional
           /\ flags' = p.flags
           /\ stdout' = Append(stdout,
                  Json(FALSE, "Missing required arguments",
                       JoinComma(MissingNames(Required(cmd_name), p.positional)), FALSE, ""))
    /\ Exit(1)
    /\ UNCHANGED <<cmd_name, args, telethon, environ, kwargs, step, authorized, exc,
                   calls, constructed, acquired, disconnects>>
    /\ UNCHANGED <<inputVars, localVars, loginVars>>

\* int(kwargs["limit"]) raises ValueError, which nothing catches
MainLimitError ==
    /\ rpc = "main"
    /\ cmd_name \in CommandNames
    /\ LET p == Parse(cmd_name, args)
           kw == BuildKwargs(Required(cmd_name), Defaults(cmd_name), p.positional, p.flags)
       IN  /\ Len(p.positional) >= Len(Required(cmd_name))
           /\ ~LimitConvertible(kw)
           /\ positional' = p.positional
           /\ flags' = p.flags
           /\ kwargs' = kw
    /\ exc' = "ValueError"
    /\ Exit(ExitCodeAfterRun("ValueError"))
    /\ UNCHANGED <<cmd_name, args, telethon, environ, step, authorized, stdout, calls,
                   constructed, acquired, disconnects>>
    /\ UNCHANGED <<inputVars, localVars, loginVars>>

\* asyncio.run(func(**kwargs)) is reached
MainDispatch ==
    /\ rpc = "main"
    /\ cmd_name \in CommandNames
    /\ LET p == Parse(cmd_name, args)
           kw == BuildKwargs(Required(cmd_name), Defaults(cmd_name), p.positional, p.flags)
       IN  /\ Len(p.positional) >= Len(Required(cmd_name))
           /\ LimitConvertible(kw)
           /\ positional' = p.positional
           /\ flags' = p.flags
           /\ kwargs' = ConvertTypes(kw)
    /\ rpc' = "func"
    /\ UNCHANGED <<cmd_name, args, telethon, environ, step, authorized, exc, stdout, calls,
                   constructed, acquired, disconnects, exitCode>>
    /\ UNCHANGED <<inputVars, localVars, loginVars>>

-----------------------------------------------------------------------------
(* The head of each operation: its imports and get_client() *)

\* from telethon.tl... import ..., the first statement of six operations
LocalImport ==
    /\ rpc = "func"
    /\ IF HasLocalImport(cmd_name) /\ ~telethon
       THEN exc' = "ImportError" /\ Exit(ExitCodeAfterRun("ImportError"))
       ELSE exc' = exc /\ rpc' = "get_client" /\ exitCode' = exitCode
    /\ UNCHANGED <<cmd_name, args, telethon, environ, positional, flags, kwargs, step,
                   authorized, stdout, calls, constructed, acquired, disconnects>>
    /\ UNCHANGED <<inputVars, localVars, loginVars>>

\* get_client: from telethon import TelegramClient
ImportTelethon ==
    /\ rpc = "get_client"
    /\ IF telethon
       THEN stdout' = stdout /\ rpc' = "get_credentials" /\ exitCode' = exitCode
       ELSE /\ stdout' = Append(stdout, Json(FALSE, "telethon not installed", <<>>, TRUE, ""))
            /\ Exit(1)
    /\ UNCHANGED <<cmd_name, args, telethon, environ, positional, flags, kwargs, step,
                   authorized, exc, calls, constructed, acquired, disconnects>>
    /\ UNCHANGED <<inputVars, localVars, loginVars>>

\* mutant of MissingCredentials: "is None" in place of "not"
MissingCredentials_OnlyNone(env) ==
    LET miss(i) == env[CredNames[i]] = NoneV
    IN  (IF miss(1) THEN <<CredNames[1]>> ELSE <<>>)
        \o (IF miss(2) THEN <<CredNames[2]>> ELSE <<>>)
        \o (IF miss(3) THEN <<CredNames[3]>> ELSE <<>>)

\* the names get_credentials appends to missing, in its order
MissingCredentials(env) ==
    LET miss(i) == ~Truthy(env[CredNames[i]])
    IN  (IF miss(1) THEN <<CredNames[1]>> ELSE <<>>)
        \o (IF miss(2) THEN <<CredNames[2]>> ELSE <<>>)
        \o (IF miss(3) THEN <<CredNames[3]>> ELSE <<>>)

\* get_credentials: load_env()
LoadEnv ==
    /\ rpc = "get_credentials"
    /\ opened' = opened \o FirstExisting(env_files)
    /\ environ' = LoadedEnv(environ, env_files)
    /\ rpc' = "check_credentials"
    /\ UNCHANGED <<cmd_name, args, telethon, positional, flags, kwargs, step, authorized,
                   exc, stdout, calls, constructed, acquired, disconnects, exitCode>>
    /\ UNCHANGED <<inputVars, matches, me, users, loginVars>>

\* get_credentials: not all([api_id, api_hash, phone])
CredentialsMissing ==
    /\ rpc = "check_credentials"
    /\ MissingCredentials(environ) # <<>>
    /\ stdout' = Append(stdout,
           Json(FALSE, "Missing credentials", MissingCredentials(environ), TRUE, ""))
    /\ Exit(1)
    /\ UNCHANGED <<cmd_name, args, telethon, environ, positional, flags, kwargs, step,
                   authorized, exc, calls, constructed, acquired, disconnects>>
    /\ UNCHANGED <<inputVars, localVars, loginVars>>

\* get_credentials: return int(api_id), api_hash, phone
CredentialsPresent ==
    /\ rpc = "check_credentials"
    /\ MissingCredentials(environ) = <<>>
    /\ IF IsPyInt(environ.TELEGRAM_API_ID.s)
       THEN exc' = exc /\ rpc' = "construct" /\ exitCode' = exitCode
       ELSE exc' = "ValueError" /\ Exit(ExitCodeAfterRun("ValueError"))
    /\ UNCHANGED <<cmd_name, args, telethon, environ, positional, flags, kwargs, step,
                   authorized, stdout, calls, constructed, acquired, disconnects>>
    /\ UNCHANGED <<inputVars, localVars, loginVars>>

\* get_client: TelegramClient(SESSION_FILE, api_id, api_hash) returns
ConstructReturns ==
    /\ rpc = "construct"
    /\ constructed' = constructed + 1
    /\ acquired' = TRUE
    /\ rpc' = "body"
    /\ UNCHANGED <<cmd_name, args, telethon, environ, positional, flags, kwargs, step,
                   authorized, exc, stdout, calls, disconnects, exitCode>>
    /\ UNCHANGED <<inputVars, localVars, loginVars>>

\* get_client: TelegramClient(...) raises; the operation has no try around it
ConstructRaises ==
    /\ rpc = "construct"
    /\ constructed' = constructed + 1
    /\ exc' = "LibError"
    /\ Exit(ExitCodeAfterRun("LibError"))
    /\ UNCHANGED <<cmd_name, args, telethon, environ, positional, flags, kwargs, step,
                   authorized, stdout, calls, acquired, disconnects>>
    /\ UNCHANGED <<inputVars, localVars, loginVars>>

-----------------------------------------------------------------------------
(* The try body of each operation, statement by statement *)

InBody == rpc = "body" /\ step <= Len(Body(cmd_name))

\* where a raise inside the try body, or a return from it, continues
Leave == rpc' = "finally"

\* an awaited library call returns
CallReturns ==
    /\ InBody
    /\ \/ Cur.k = "call"
       \/ Cur.k = "call_if_auth" /\ authorized
    /\ calls' = Append(calls, Cur.f)
    /\ me' \in (IF Cur.f = "get_me" THEN Users ELSE {me})
    /\ step' = step + 1
    /\ UNCHANGED <<rpc, cmd_name, args, telethon, environ, positional, flags, kwargs,
                   authorized, exc, stdout, constructed, acquired, disconnects, exitCode>>
    /\ UNCHANGED <<inputVars, opened, matches, users, loginVars>>

\* cmd_lookup_group: the async for over client.iter_dialogs() runs to its end
LookupScan ==
    /\ InBody
    /\ Cur.k = "scan"
    /\ calls' = Append(calls, Cur.f)
    /\ matches' = LookupMatches(kwargs[N_name].s, dialogs)
    /\ step' = step + 1
    /\ UNCHANGED <<rpc, cmd_name, args, telethon, environ, positional, flags, kwargs,
                   authorized, exc, stdout, constructed, acquired, disconnects, exitCode>>
    /\ UNCHANGED <<inputVars, opened, me, users, loginVars>>

\* an awaited library call raises
CallRaises ==
    /\ InBody
    /\ \/ Cur.k \in {"call", "authq", "scan"}
       \/ Cur.k = "call_if_auth" /\ authorized
    /\ calls' = Append(calls, Cur.f)
    /\ exc' = "LibError"
    /\ Leave
    /\ UNCHANGED <<cmd_name, args, telethon, environ, positional, flags, kwargs, step,
                   authorized, stdout, constructed, acquired, disconnects, exitCode>>
    /\ UNCHANGED <<inputVars, localVars, loginVars>>

\* cmd_check_session: if await client.is_user_authorized()
AuthQuery ==
    /\ InBody
    /\ Cur.k = "authq"
    /\ calls' = Append(calls, Cur.f)
    /\ authorized' \in BOOLEAN
    /\ step' = step + 1
    /\ UNCHANGED <<rpc, cmd_name, args, telethon, environ, positional, flags, kwargs,
                   exc, stdout, constructed, acquired, disconnects, exitCode>>
    /\ UNCHANGED <<inputVars, localVars, loginVars>>

\* mutant of NotAuthorized: the user record is fetched before the branch
NotAuthorized_FetchesUser ==
    /\ InBody
    /\ Cur.k = "call_if_auth" /\ ~authorized
    /\ calls' = Append(calls, Cur.f)
    /\ step' = step + 1
    /\ UNCHANGED <<rpc, cmd_name, args, telethon, environ, positional, flags, kwargs,
                   authorized, exc, stdout, constructed, acquired, disconnects,
                   exitCode>>
    /\ UNCHANGED <<inputVars, localVars, loginVars>>

\* cmd_check_session: the else branch, get_me is not called
NotAuthorized ==
    /\ InBody
    /\ Cur.k = "call_if_auth" /\ ~authorized
    /\ step' = step + 1
    /\ UNCHANGED <<rpc, cmd_name, args, telethon, environ, positional, flags, kwargs,
                   authorized, exc, stdout, calls, constructed, acquired, disconnects,
                   exitCode>>
    /\ UNCHANGED <<inputVars, localVars, loginVars>>

\* chat_id = int(chat_id)
IntChatId ==
    /\ InBody
    /\ Cur.k = "int_chat_id"
    /\ IF IsPyInt(kwargs[N_chat_id].s)
       THEN /\ kwargs' = Put(kwargs, N_chat_id, IntV(PyInt(kwargs[N_chat_id].s)))
            /\ step' = step + 1
            /\ UNCHANGED <<rpc, exc>>
       ELSE /\ exc' = "ValueError"
            /\ Leave
            /\ UNCHANGED <<kwargs, step>>
    /\ UNCHANGED <<cmd_name, args, telethon, environ, positional, flags, authorized,
                   stdout, calls, constructed, acquired, disconnects, exitCode>>
    /\ UNCHANGED <<inputVars, localVars, loginVars>>

\* cmd_create_group: if bot_username is false, no lookup
BotAbsent ==
    /\ InBody
    /\ Cur.k = "bot_lookup"
    /\ ~Truthy(kwargs[N_bot_username])
    /\ step' = step + 1
    /\ UNCHANGED <<rpc, cmd_name, args, telethon, environ, positional, flags, kwargs,
                   authorized, exc, stdout, calls, constructed, acquired, disconnects,
                   exitCode>>
    /\ UNCHANGED <<inputVars, localVars, loginVars>>

\* cmd_create_group: get_entity(username) returns the bot
BotFound ==
    /\ InBody
    /\ Cur.k = "bot_lookup"
    /\ Truthy(kwargs[N_bot_username])
    /\ LStrip(kwargs[N_bot_username].s, "@") \in KnownUsernames
    /\ calls' = Append(calls, Cur.f)
    /\ users' = Append(users, LStrip(kwargs[N_bot_username].s, "@"))
    /\ step' = step + 1
    /\ UNCHANGED <<rpc, cmd_name, args, telethon, environ, positional, flags, kwargs,
                   authorized, exc, stdout, constructed, acquired, disconnects, exitCode>>
    /\ UNCHANGED <<inputVars, opened, matches, me, loginVars>>

\* cmd_create_group: get_entity(username) raises: output the error and return
BotNotFound ==
    /\ InBody
    /\ Cur.k = "bot_lookup"
    /\ Truthy(kwargs[N_bot_username])
    /\ calls' = Append(calls, Cur.f)
    /\ stdout' = Append(stdout,
           Json(FALSE, "Could not find user", LStrip(kwargs[N_bot_username].s, "@"),
                FALSE, ""))
    /\ Leave
    /\ UNCHANGED <<cmd_name, args, telethon, environ, positional, flags, kwargs, step,
                   authorized, exc, constructed, acquired, disconnects, exitCode>>
    /\ UNCHANGED <<inputVars, localVars, loginVars>>

\* cmd_set_group_photo: os.path.exists(photo_path)
PhotoFound ==
    /\ InBody
    /\ Cur.k = "photo_exists"
    /\ step' = step + 1
    /\ UNCHANGED <<rpc, cmd_name, args, telethon, environ, positional, flags, kwargs,
                   authorized, exc, stdout, calls, constructed, acquired, disconnects,
                   exitCode>>
    /\ UNCHANGED <<inputVars, localVars, loginVars>>

\* cmd_set_group_photo: the file is not there: output the error and return
PhotoMissing ==
    /\ InBody
    /\ Cur.k = "photo_exists"
    /\ stdout' = Append(stdout,
           Json(FALSE, "File not found", kwargs[N_photo_path].s, FALSE, ""))
    /\ Leave
    /\ UNCHANGED <<cmd_name, args, telethon, environ, positional, flags, kwargs, step,
                   authorized, exc, calls, constructed, acquired, disconnects, exitCode>>
    /\ UNCHANGED <<inputVars, localVars, loginVars>>

\* cmd_get_chat_info: get_participants inside its own try/except, either outcome
CallCaught ==
    /\ InBody
    /\ Cur.k = "call_caught"
    /\ calls' = Append(calls, Cur.f)
    /\ step' = step + 1
    /\ UNCHANGED <<rpc, cmd_name, args, telethon, environ, positional, flags, kwargs,
                   authorized, exc, stdout, constructed, acquired, disconnects, exitCode>>
    /\ UNCHANGED <<inputVars, localVars, loginVars>>

\* what the ok: true object holds besides ok and hint; for the operations whose
\* fields no property reads, the name of the operation
OkResult ==
    CASE cmd_name = "check-session" /\ authorized ->
            [authorized |-> TRUE, user_id |-> me.id, username |-> me.username]
      [] cmd_name = "check-session" /\ ~authorized ->
            [authorized |-> FALSE, user_id |-> 0, username |-> NoneV]
      [] cmd_name = "lookup-group" ->
            [query |-> kwargs[N_name].s, matches |-> matches, count |-> Len(matches)]
      [] cmd_name = "create-group" ->
            [title |-> kwargs[N_title].s,
             members_added |-> IF Truthy(kwargs[N_bot_username])
                               THEN <<kwargs[N_bot_username].s>> ELSE <<>>]
      [] OTHER -> [operation |-> cmd_name]

\* output({"ok": True, ...}), the last statement of every try body
OutputOk ==
    /\ InBody
    /\ Cur.k = "output_ok"
    /\ stdout' = Append(stdout,
           Json(TRUE, "", <<>>, cmd_name = "check-session" /\ ~authorized, OkResult))
    /\ Leave
    /\ UNCHANGED <<cmd_name, args, telethon, environ, positional, flags, kwargs, step,
                   authorized, exc, calls, constructed, acquired, disconnects, exitCode>>
    /\ UNCHANGED <<inputVars, localVars, loginVars>>

\* mutant of DisconnectReturns: an exit path that leaves the try without the finally
DisconnectReturns_Omitted ==
    /\ rpc = "finally"
    /\ Exit(ExitCodeAfterRun(exc))
    /\ UNCHANGED <<cmd_name, args, telethon, environ, positional, flags, kwargs, step,
                   authorized, exc, stdout, calls, constructed, acquired, disconnects>>
    /\ UNCHANGED <<inputVars, localVars, loginVars>>

\* finally: await client.disconnect() returns; an exception in flight goes on
DisconnectReturns ==
    /\ rpc = "finally"
    /\ disconnects' = disconnects + 1
    /\ Exit(ExitCodeAfterRun(exc))
    /\ UNCHANGED <<cmd_name, args, telethon, environ, positional, flags, kwargs, step,
                   authorized, exc, stdout, calls, constructed, acquired>>
    /\ UNCHANGED <<inputVars, localVars, loginVars>>

\* finally: await client.disconnect() raises
DisconnectRaises ==
    /\ rpc = "finally"
    /\ disconnects' = disconnects + 1
    /\ exc' = "LibError"
    /\ Exit(ExitCodeAfterRun("LibError"))
    /\ UNCHANGED <<cmd_name, args, telethon, environ, positional, flags, kwargs, step,
                   authorized, stdout, calls, constructed, acquired>>
    /\ UNCHANGED <<inputVars, localVars, loginVars>>

RouterNext ==
    \/ MainUsage
    \/ MainUnknown
    \/ MainMissingArgs
    \/ MainLimitError
    \/ MainDispatch
    \/ LocalImport
    \/ ImportTelethon
    \/ LoadEnv
    \/ CredentialsMissing
    \/ CredentialsPresent
    \/ ConstructReturns
    \/ ConstructRaises
    \/ CallReturns
    \/ LookupScan
    \/ CallRaises
    \/ AuthQuery
    \/ NotAuthorized
    \/ IntChatId
    \/ BotAbsent
    \/ BotFound
    \/ BotNotFound
    \/ PhotoFound
    \/ PhotoMissing
    \/ CallCaught
    \/ OutputOk
    \/ DisconnectReturns
    \/ DisconnectRaises


-----------------------------------------------------------------------------
(* web_login.py: state *)

Absent == [exists |-> FALSE, content |-> <<>>, wid |-> 0]

\* the status messages: the literal and what is formatted into it
Msg(text, detail) == <<text, detail>>

\* for _ in range(30) in do_POST
PollCeiling == 30
\* mutant of ExtraRequests: range(9)
ExtraRequests_Nine == 10 - 1

\* for _ in range(10) after the while loop
ExtraRequests == 10

C_1 == <<"1">>
C_2 == <<"2">>

\* data.get("code", [""])[0] for the bodies that arrive: no code field or a blank one
\* (parse_qs drops blank values), whitespace, a code, a code with a trailing blank
CodeFields == {<<>>, <<" ">>, C_1, C_2 \o <<" ">>}

\* a mailbox file left by an earlier run, or none
StaleFiles == {Absent, [exists |-> TRUE, content |-> C_1, wid |-> 0]}

Dead == tpc = "dead"

WfcStates == {"wfc_msg", "wfc_check", "wfc_read", "wfc_remove"}

LoginInit ==
    /\ telethon \in BOOLEAN
    /\ status = [state |-> "waiting", message |-> Msg("", "")]
    /\ code_file \in StaleFiles
    /\ fd = "closed"
    /\ posted = <<>>
    /\ delivered = <<>>
    /\ mpc = "cleanup"
    /\ phase = "while"
    /\ extra = 0
    /\ code = <<>>
    /\ polls = 0
    /\ pages = 0
    /\ page = [kind |-> "none", state |-> "", message |-> Msg("", "")]
    /\ served = 0
    /\ afterDeath = 0
    /\ tpc = "unstarted"
    /\ tcode = [code |-> <<>>, wid |-> 0]
    /\ ncallbacks = 0
    /\ texc = "none"
    /\ terr = ""
    /\ diedIdle = FALSE
    /\ stale = FALSE

\* the login server is not running
LoginOff ==
    /\ status = [state |-> "waiting", message |-> Msg("", "")]
    /\ code_file = Absent
    /\ fd = "closed"
    /\ posted = <<>>
    /\ delivered = <<>>
    /\ mpc = "off"
    /\ phase = "while"
    /\ extra = 0
    /\ code = <<>>
    /\ polls = 0
    /\ pages = 0
    /\ page = [kind |-> "none", state |-> "", message |-> Msg("", "")]
    /\ served = 0
    /\ afterDeath = 0
    /\ tpc = "off"
    /\ tcode = [code |-> <<>>, wid |-> 0]
    /\ ncallbacks = 0
    /\ texc = "none"
    /\ terr = ""
    /\ diedIdle = FALSE
    /\ stale = FALSE

\* the router is not running
RouterOff ==
    /\ rpc = "off"
    /\ cmd_name = NoCommand
    /\ args = <<>>
    /\ environ = CompleteEnv
    /\ positional = <<>>
    /\ flags = EmptyDict
    /\ kwargs = EmptyDict
    /\ step = 1
    /\ authorized = FALSE
    /\ exc = "none"
    /\ stdout = <<>>
    /\ calls = <<>>
    /\ constructed = 0
    /\ acquired = FALSE
    /\ disconnects = 0
    /\ exitCode = Running
    /\ env_files = NoEnvFiles
    /\ environ0 = CompleteEnv
    /\ opened = <<>>
    /\ dialogs = <<>>
    /\ matches = <<>>
    /\ me = NoUser
    /\ users = <<>>

-----------------------------------------------------------------------------
(* web_login.py: the foreground thread *)

\* mutant of Cleanup: the file of the earlier run is left in place
Cleanup_Skipped ==
    /\ mpc = "cleanup"
    /\ stale' = code_file.exists
    /\ mpc' = "spawn"
    /\ UNCHANGED <<phase, extra, code, polls, pages, page, served, afterDeath>>
    /\ UNCHANGED <<bgVars, sharedVars>>
    /\ UNCHANGED routerVars

\* if os.path.exists(code_file): os.remove(code_file)
Cleanup ==
    /\ mpc = "cleanup"
    /\ code_file' = Absent
    /\ stale' = code_file.exists
    /\ mpc' = "spawn"
    /\ UNCHANGED <<phase, extra, code, polls, pages, page, served, afterDeath>>
    /\ UNCHANGED <<bgVars, status, fd, posted, delivered>>
    /\ UNCHANGED routerVars

\* t.start()
Spawn ==
    /\ mpc = "spawn"
    /\ tpc' = "import"
    /\ mpc' = "while_check"
    /\ UNCHANGED <<phase, extra, code, polls, pages, page, served, afterDeath, stale>>
    /\ UNCHANGED <<tcode, ncallbacks, texc, terr, diedIdle, sharedVars>>
    /\ UNCHANGED routerVars

\* where the while test sends the main thread, given what t.is_alive() returned
AfterWhileTest(alive) == IF alive THEN "accept" ELSE "for_check"

\* while t.is_alive():
WhileCheck ==
    /\ mpc = "while_check"
    /\ mpc' = AfterWhileTest(~Dead)
    /\ phase' = (IF ~Dead THEN "while" ELSE phase)
    /\ UNCHANGED <<extra, code, polls, pages, page, served, afterDeath, stale>>
    /\ UNCHANGED <<bgVars, sharedVars>>
    /\ UNCHANGED routerVars

\* for _ in range(10): ... and print("Done.") after it
ForCheck ==
    /\ mpc = "for_check"
    /\ IF extra < ExtraRequests
       THEN mpc' = "accept" /\ phase' = "for" /\ extra' = extra + 1
       ELSE mpc' = "done" /\ phase' = phase /\ extra' = extra
    /\ UNCHANGED <<code, polls, pages, page, served, afterDeath, stale>>
    /\ UNCHANGED <<bgVars, sharedVars>>
    /\ UNCHANGED routerVars

\* handle_request returns to the loop that called it
Return == mpc' = (IF phase = "while" THEN "while_check" ELSE "for_check")

\* a request can arrive: the model lets MaxRequests arrive while the thread is alive
Arrives ==
    /\ mpc = "accept"
    /\ ~Dead => served < MaxRequests

Accepted ==
    /\ served' = (IF Dead THEN served ELSE served + 1)
    /\ afterDeath' = (IF Dead THEN afterDeath + 1 ELSE afterDeath)

\* HTML_FORM with the status filled in
FormPage == [kind |-> "form", state |-> status.state, message |-> status.message]

\* HTML_SUCCESS with the message filled in
SuccessPage == [kind |-> "success", state |-> "success", message |-> status.message]

\* mutant of DoGet: the handler puts the status back to waiting
DoGet_ResetsStatus ==
    /\ Arrives
    /\ Accepted
    /\ pages' = 1
    /\ page' = FormPage
    /\ status' = [state |-> "waiting", message |-> Msg("", "")]
    /\ Return
    /\ UNCHANGED <<phase, extra, code, polls, stale>>
    /\ UNCHANGED <<bgVars, code_file, fd, posted, delivered>>
    /\ UNCHANGED routerVars

\* do_GET
DoGet ==
    /\ Arrives
    /\ Accepted
    /\ pages' = 1
    /\ page' = FormPage
    /\ Return
    /\ UNCHANGED <<phase, extra, code, polls, stale>>
    /\ UNCHANGED <<bgVars, sharedVars>>
    /\ UNCHANGED routerVars

\* do_POST up to "if code:"; with an empty code the handler returns there
DoPost ==
    /\ Arrives
    /\ \E field \in CodeFields :
        /\ Strip(field) # <<>> => Len(posted) < MaxPosts
        /\ code' = Strip(field)
        /\ IF Strip(field) # <<>> THEN mpc' = "post_open" ELSE Return
    /\ Accepted
    /\ pages' = 0
    /\ polls' = 0
    /\ UNCHANGED <<phase, extra, page, stale>>
    /\ UNCHANGED <<bgVars, sharedVars>>
    /\ UNCHANGED routerVars

\* open(code_file, "w"): the file is created or truncated
PostOpen ==
    /\ mpc = "post_open"
    /\ code_file' = [exists |-> TRUE, content |-> <<>>, wid |-> 0]
    /\ fd' = "linked"
    /\ mpc' = "post_write"
    /\ UNCHANGED <<phase, extra, code, polls, pages, page, served, afterDeath, stale>>
    /\ UNCHANGED <<bgVars, status, posted, delivered>>
    /\ UNCHANGED routerVars

\* f.write(code) and the close at the end of the with block; a file removed while it
\* was open takes the write into its unlinked inode
PostWrite ==
    /\ mpc = "post_write"
    /\ posted' = Append(posted, [code |-> code, waiting |-> tpc \in WfcStates])
    /\ code_file' = (IF fd = "linked"
                     THEN [exists |-> TRUE, content |-> code, wid |-> Len(posted) + 1]
                     ELSE code_file)
    /\ fd' = "closed"
    /\ mpc' = "post_poll"
    /\ UNCHANGED <<phase, extra, code, polls, pages, page, served, afterDeath, stale>>
    /\ UNCHANGED <<bgVars, status, delivered>>
    /\ UNCHANGED routerVars

\* mutant of PostPoll: a poll that reads error does not end the polling
PostPoll_NoErrorBreak ==
    /\ mpc = "post_poll"
    /\ polls < PollCeiling
    /\ polls' = polls + 1
    /\ IF status.state = "success"
       THEN pages' = pages + 1 /\ page' = SuccessPage /\ Return
       ELSE /\ UNCHANGED <<pages, page>>
            /\ mpc' = (IF polls + 1 = PollCeiling THEN "post_render" ELSE "post_poll")
    /\ UNCHANGED <<phase, extra, code, served, afterDeath, stale>>
    /\ UNCHANGED <<bgVars, sharedVars>>
    /\ UNCHANGED routerVars

\* one iteration of the polling loop: sleep, then look at status["state"]
PostPoll ==
    /\ mpc = "post_poll"
    /\ polls < PollCeiling
    /\ polls' = polls + 1
    /\ IF status.state = "success"
       THEN pages' = pages + 1 /\ page' = SuccessPage /\ Return
       ELSE /\ UNCHANGED <<pages, page>>
            /\ mpc' = (IF status.state = "error" \/ polls + 1 = PollCeiling
                       THEN "post_render" ELSE "post_poll")
    /\ UNCHANGED <<phase, extra, code, served, afterDeath, stale>>
    /\ UNCHANGED <<bgVars, sharedVars>>
    /\ UNCHANGED routerVars

\* after the loop: the form page with the current status
PostRender ==
    /\ mpc = "post_render"
    /\ pages' = pages + 1
    /\ page' = FormPage
    /\ Return
    /\ UNCHANGED <<phase, extra, code, polls, served, afterDeath, stale>>
    /\ UNCHANGED <<bgVars, sharedVars>>
    /\ UNCHANGED routerVars

-----------------------------------------------------------------------------
(* web_login.py: the background thread *)

\* the thread ends; the while loop may be blocked in handle_request at that moment
Dies(how) ==
    /\ tpc' = "dead"
    /\ texc' = how
    /\ diedIdle' = (mpc = "accept" /\ phase = "while")

\* an exception raised inside the try block of telegram_login
Raise(where) == tpc' = "except_state" /\ terr' = where

\* telegram_login: from telethon import TelegramClient, before the try block
TImport ==
    /\ tpc = "import"
    /\ IF telethon
       THEN tpc' = "construct" /\ UNCHANGED <<texc, terr, diedIdle>>
       ELSE Dies("uncaught") /\ terr' = "import"
    /\ UNCHANGED <<tcode, ncallbacks, mainVars, sharedVars>>
    /\ UNCHANGED routerVars

\* client = TelegramClient(session_file, API_ID, API_HASH)
TConstruct ==
    /\ tpc = "construct"
    /\ \/ tpc' = "start" /\ terr' = terr
       \/ Raise("construct")
    /\ UNCHANGED <<tcode, ncallbacks, texc, diedIdle, mainVars, sharedVars>>
    /\ UNCHANGED routerVars

\* client.start calls code_callback: wait_for_code sets status["state"]
TStartCallsBack ==
    /\ tpc = "start"
    /\ ncallbacks < MaxCallbacks
    /\ ncallbacks' = ncallbacks + 1
    /\ status' = [status EXCEPT !.state = "waiting"]
    /\ tpc' = "wfc_msg"
    /\ UNCHANGED <<tcode, texc, terr, diedIdle, mainVars, code_file, fd, posted, delivered>>
    /\ UNCHANGED routerVars

\* wait_for_code: status["message"] = "Waiting for verification code..."
WfcMessage ==
    /\ tpc = "wfc_msg"
    /\ status' = [status EXCEPT !.message = Msg("Waiting for verification code...", "")]
    /\ tpc' = "wfc_check"
    /\ UNCHANGED <<tcode, ncallbacks, texc, terr, diedIdle, mainVars, code_file, fd,
                   posted, delivered>>
    /\ UNCHANGED routerVars

\* wait_for_code: if os.path.exists(code_file), else sleep and look again
WfcCheck ==
    /\ tpc = "wfc_check"
    /\ code_file.exists
    /\ tpc' = "wfc_read"
    /\ UNCHANGED <<tcode, ncallbacks, texc, terr, diedIdle, mainVars, sharedVars>>
    /\ UNCHANGED routerVars

\* wait_for_code: code = f.read().strip(); if code: ... else sleep and look again
WfcRead ==
    /\ tpc = "wfc_read"
    /\ tcode' = [code |-> Strip(code_file.content), wid |-> code_file.wid]
    /\ tpc' = (IF Strip(code_file.content) # <<>> THEN "wfc_remove" ELSE "wfc_check")
    /\ UNCHANGED <<ncallbacks, texc, terr, diedIdle, mainVars, sharedVars>>
    /\ UNCHANGED routerVars

\* mutant of WfcRemove: the code is returned and the file is left in place
WfcRemove_KeepsFile ==
    /\ tpc = "wfc_remove"
    /\ delivered' = Append(delivered, tcode)
    /\ tpc' = "start"
    /\ UNCHANGED <<tcode, ncallbacks, texc, terr, diedIdle, mainVars, status, posted,
                   code_file, fd>>
    /\ UNCHANGED routerVars

\* wait_for_code: os.remove(code_file); return code
WfcRemove ==
    /\ tpc = "wfc_remove"
    /\ code_file' = Absent
    /\ fd' = (IF fd = "linked" THEN "unlinked" ELSE fd)
    /\ delivered' = Append(delivered, tcode)
    /\ tpc' = "start"
    /\ UNCHANGED <<tcode, ncallbacks, texc, terr, diedIdle, mainVars, status, posted>>
    /\ UNCHANGED routerVars

\* await client.start(...) returns or raises
TStart ==
    /\ tpc = "start"
    /\ \/ tpc' = "get_me" /\ terr' = terr
       \/ Raise("start")
    /\ UNCHANGED <<tcode, ncallbacks, texc, diedIdle, mainVars, sharedVars>>
    /\ UNCHANGED routerVars

\* me = await client.get_me()
TGetMe ==
    /\ tpc = "get_me"
    /\ \/ tpc' = "set_success" /\ terr' = terr
       \/ Raise("get_me")
    /\ UNCHANGED <<tcode, ncallbacks, texc, diedIdle, mainVars, sharedVars>>
    /\ UNCHANGED routerVars

\* status["state"] = "success"
TSetSuccess ==
    /\ tpc = "set_success"
    /\ status' = [status EXCEPT !.state = "success"]
    /\ tpc' = "set_success_msg"
    /\ UNCHANGED <<tcode, ncallbacks, texc, terr, diedIdle, mainVars, code_file, fd,
                   posted, delivered>>
    /\ UNCHANGED routerVars

\* status["message"] = f"Logged in as {name} (@{me.username})"
TSetSuccessMessage ==
    /\ tpc = "set_success_msg"
    /\ status' = [status EXCEPT !.message = Msg("Logged in as", "me")]
    /\ tpc' = "disconnect"
    /\ UNCHANGED <<tcode, ncallbacks, texc, terr, diedIdle, mainVars, code_file, fd,
                   posted, delivered>>
    /\ UNCHANGED routerVars

\* await client.disconnect(), the last statement of the try block
TDisconnect ==
    /\ tpc = "disconnect"
    /\ \/ Dies("none") /\ terr' = terr
       \/ Raise("disconnect") /\ UNCHANGED <<texc, diedIdle>>
    /\ UNCHANGED <<tcode, ncallbacks, mainVars, sharedVars>>
    /\ UNCHANGED routerVars

\* except Exception as e: status["state"] = "error"
TExceptState ==
    /\ tpc = "except_state"
    /\ status' = [status EXCEPT !.state = "error"]
    /\ tpc' = "except_msg"
    /\ UNCHANGED <<tcode, ncallbacks, texc, terr, diedIdle, mainVars, code_file, fd,
                   posted, delivered>>
    /\ UNCHANGED routerVars

\* status["message"] = f"Error: {e}", the print, and the end of the thread
TExceptMessage ==
    /\ tpc = "except_msg"
    /\ status' = [status EXCEPT !.message = Msg("Error", terr)]
    /\ Dies("caught")
    /\ UNCHANGED <<tcode, ncallbacks, terr, mainVars, code_file, fd, posted, delivered>>
    /\ UNCHANGED routerVars

-----------------------------------------------------------------------------
(* The specifications *)

ForegroundNext ==
    \/ Cleanup
    \/ Spawn
    \/ WhileCheck
    \/ ForCheck
    \/ DoGet
    \/ DoPost
    \/ PostOpen
    \/ PostWrite
    \/ PostPoll
    \/ PostRender

BackgroundNext ==
    \/ TImport
    \/ TConstruct
    \/ TStartCallsBack
    \/ WfcMessage
    \/ WfcCheck
    \/ WfcRead
    \/ WfcRemove
    \/ TStart
    \/ TGetMe
    \/ TSetSuccess
    \/ TSetSuccessMessage
    \/ TDisconnect
    \/ TExceptState
    \/ TExceptMessage

LoginNext == ForegroundNext \/ BackgroundNext

\* the router is started and the login server is not
InitRouter == RouterInit /\ LoginOff

\* the login server is started and the router is not
InitLogin == LoginInit /\ RouterOff

\* one run of telegram_api.py
RouterSpec == InitRouter /\ [][RouterNext]_vars

\* one run of web_login.py
LoginSpec == InitLogin /\ [][LoginNext]_vars

\* one run of web_login.py in which both threads are scheduled fairly; a request that
\* never arrives is no unfairness, so the steps that accept one carry no condition
LoginFairSpec ==
    /\ LoginSpec
    /\ WF_vars(BackgroundNext)
    /\ WF_vars(Cleanup \/ Spawn \/ WhileCheck \/ ForCheck \/ PostOpen \/ PostWrite
               \/ PostPoll \/ PostRender)

-----------------------------------------------------------------------------
(* Properties of the Command Router *)

\* the run has a recognised command and enough positional arguments
EnoughArgs ==
    /\ cmd_name \in CommandNames
    /\ Len(Parse(cmd_name, args).positional) >= Len(Required(cmd_name))

\* main reaches asyncio.run(func(**kwargs))
Dispatches ==
    /\ EnoughArgs
    /\ LimitConvertible(BuildKwargs(Required(cmd_name), Defaults(cmd_name),
                                    Parse(cmd_name, args).positional,
                                    Parse(cmd_name, args).flags))

\* the library is installed and the three credentials are usable
Configured ==
    /\ telethon
    /\ \A i \in 1..3 : environ[CredNames[i]].t = "str" /\ environ[CredNames[i]].s # <<>>
    /\ IsPyInt(environ.TELEGRAM_API_ID.s)

\* C1: a configured run with a recognised command and enough arguments has written
\* exactly one JSON object when the process exits, whatever the library calls and the
\* coercions do
C1_ExactlyOneJson ==
    (rpc = "exit" /\ EnoughArgs /\ Configured) => JsonCount = 1

\* C2: once the operation holds a client handle, disconnect is called on it exactly
\* once, as the last thing the operation does, on every exit path; it is never called
\* without a handle
C2_DisconnectOnce ==
    /\ disconnects <= 1
    /\ (rpc = "exit" /\ acquired) => disconnects = 1
    /\ disconnects = 1 => (acquired /\ rpc = "exit")

\* the early return of create-group (bot lookup failed) has ended with one disconnect
C2_Witness ==
    /\ rpc = "exit" /\ acquired /\ disconnects = 1
    /\ cmd_name = "create-group"
    /\ stdout # <<>> /\ stdout[Len(stdout)].error = "Could not find user"

\* C3: with fewer positionals than required names, main prints ok: false with exactly
\* the required names from position len(positional) on, in declaration order, and
\* neither the operation nor a client construction nor a library call happens
C3_MissingArgs ==
    LET req == Required(cmd_name)
        n == Len(Parse(cmd_name, args).positional)
    IN  (cmd_name \in CommandNames /\ n < Len(req)) =>
            /\ rpc \in {"main", "exit"}
            /\ constructed = 0 /\ calls = <<>> /\ ~acquired
            /\ rpc = "exit" =>
                   stdout = <<Json(FALSE, "Missing required arguments",
                                   JoinComma([i \in 1..(Len(req) - n) |-> req[n + i]]),
                                   FALSE, "")>>

\* send-message with one positional has reported that text alone is missing
C3_Witness ==
    /\ rpc = "exit" /\ cmd_name = "send-message" /\ Len(positional) = 1
    /\ stdout = <<Json(FALSE, "Missing required arguments", N_text, FALSE, "")>>

UnknownCommand == cmd_name \notin CommandNames \cup HelpNames \cup {NoCommand}

SomeUnset == \E i \in 1..3 : environ[CredNames[i]] = NoneV

\* C8 as stated: with a credential variable unset, every command that is dispatched
\* prints ok: false with exactly the unset variables, exits 1, and constructs no
\* client and makes no library call, whether or not the library is installed
C8_MissingCredentials ==
    (rpc = "exit" /\ Dispatches /\ SomeUnset) =>
        /\ stdout = <<Json(FALSE, "Missing credentials",
                           SelectSeq(CredNames, LAMBDA v : environ[v] = NoneV), TRUE, "")>>
        /\ exitCode = 1
        /\ constructed = 0 /\ calls = <<>>

\* C8 as amended: when the library can be imported and a credential variable is unset
\* or empty, every command that is dispatched prints ok: false with exactly the unset
\* or empty variables in the order id, hash, phone, exits 1, and constructs no client
\* and makes no library call
C8_MissingCredentialsAmended ==
    (Dispatches /\ telethon /\ \E i \in 1..3 : environ[CredNames[i]] \in {NoneV, StrV(<<>>)}) =>
        /\ constructed = 0 /\ calls = <<>> /\ ~acquired
        /\ rpc \in {"main", "func", "get_client", "get_credentials", "check_credentials",
                    "exit"}
        /\ rpc = "exit" =>
               /\ stdout = <<Json(FALSE, "Missing credentials",
                                  SelectSeq(CredNames,
                                            LAMBDA v : environ[v] \in {NoneV, StrV(<<>>)}),
                                  TRUE, "")>>
               /\ exitCode = 1

\* send-message with the hash empty and the phone unset has reported both
C8_Witness ==
    /\ rpc = "exit" /\ cmd_name = "send-message" /\ telethon
    /\ environ.TELEGRAM_API_HASH = StrV(<<>>) /\ environ.TELEGRAM_PHONE = NoneV
    /\ environ.TELEGRAM_API_ID = StrV(<<"7">>)
    /\ stdout = <<Json(FALSE, "Missing credentials",
                       <<"TELEGRAM_API_HASH", "TELEGRAM_PHONE">>, TRUE, "")>>

\* what main passes to the operation for the command c and the tokens a, when it
\* gets as far as asyncio.run
Passed(c, a) ==
    LET p == Parse(c, a)
        kw == BuildKwargs(Required(c), Defaults(c), p.positional, p.flags)
    IN  IF Len(p.positional) >= Len(Required(c)) /\ LimitConvertible(kw)
        THEN [dispatched |-> TRUE, kwargs |-> ConvertTypes(kw)]
        ELSE [dispatched |-> FALSE, kwargs |-> EmptyDict]

\* the command has one required argument
SingleRequired == cmd_name \in CommandNames /\ Len(Required(cmd_name)) = 1

\* the token lists P --req1=X and P --req1 X of the command in hand
WithFlag(P, X) ==
    {<<P, FlagEq(Required(cmd_name)[1], X)>>, <<P, FlagSp(Required(cmd_name)[1]), X>>}

\* main has built kwargs and called the operation
JustDispatched == rpc = "func"

\* every flag whose key is a required or an optional name of the command is what the
\* operation gets for that name (the limit as an integer), wherever the flag stood
FlagsOverride ==
    JustDispatched =>
        \A k \in DOMAIN flags :
            (k \in SeqRange(Required(cmd_name))
             \/ \E i \in 1..Len(Defaults(cmd_name)) : Defaults(cmd_name)[i][1] = k) =>
                /\ k \in DOMAIN kwargs
                /\ kwargs[k] = (IF k = N_limit /\ flags[k].t = "str"
                                THEN IntV(PyInt(flags[k].s)) ELSE flags[k])

\* P --req1=X, P --req1 X and X give the operation the same keyword arguments, for
\* the values P and X of the set V
OverrideEquivalence(VP, VX) ==
    (JustDispatched /\ SingleRequired) =>
        \A P \in VP, X \in VX :
            /\ args \in WithFlag(P, X) =>
                   Passed(cmd_name, <<X>>) = [dispatched |-> TRUE, kwargs |-> kwargs]
            /\ args = <<X>> =>
                   \A a \in WithFlag(P, X) :
                       Passed(cmd_name, a) = [dispatched |-> TRUE, kwargs |-> kwargs]

\* C11 as stated: for a command with one required argument req1 and any values P and
\* X, the token lists P --req1=X and P --req1 X give the operation the same keyword
\* arguments as the token list X; and a flag whose key is a required or optional name
\* overrides the positional assignment wherever it stands
C11_FlagOverride ==
    /\ OverrideEquivalence(OverrideValues, OverrideValues)
    /\ FlagsOverride

\* values that the parser takes as positionals
PlainValues == {v \in OverrideValues : ~StartsWith(v, <<"-", "-">>)}
\* values that are not of the form --key=value
NotAssignments == {v \in OverrideValues : ~(StartsWith(v, <<"-", "-">>) /\ Contains(v, "="))}

\* C11 as amended: the same, for a P that does not start with "--" and an X that is
\* not of the form --key=value
C11_FlagOverrideAmended ==
    /\ OverrideEquivalence(PlainValues, NotAssignments)
    /\ FlagsOverride

\* lookup-group a --name=7 has been dispatched with name = "7"
C11_Witness ==
    /\ JustDispatched /\ cmd_name = "lookup-group"
    /\ args = <<T_a, FlagEq(N_name, T_7)>>
    /\ kwargs = [k \in {N_name} |-> StrV(T_7)]

\* the letter c in upper case
UpperOf(c) ==
    IF \E i \in 1..Len(LowerLetters) : LowerLetters[i] = c
    THEN UpperLetters[CHOOSE i \in 1..Len(LowerLetters) : LowerLetters[i] = c]
    ELSE c

\* q occurs in t when the case of the letters is ignored
OccursIgnoringCase(q, t) ==
    \E i \in 0..(Len(t) - Len(q)) :
        \A j \in 1..Len(q) : UpperOf(t[i + j]) = UpperOf(q[j])

\* the dialog is a group or a channel whose title (empty when missing) holds q
IsMatch(q, d) ==
    /\ d.kind \in {"Chat", "Channel"}
    /\ OccursIgnoringCase(q, IF d.title.t = "str" THEN d.title.s ELSE <<>>)

\* indices of the matching dialogs
MatchIndices(q) == {i \in 1..Len(dialogs) : IsMatch(q, dialogs[i])}

\* lookup-group has printed its ok: true object
LookupPrinted ==
    /\ cmd_name = "lookup-group"
    /\ stdout # <<>> /\ stdout[1].ok

\* C12: lookup-group prints exactly the group and channel dialogs whose title holds
\* the query when both are lower-cased (a missing title is the empty string), in the
\* order of the iteration, and count is their number; with the titles "Family Chat"
\* and "Work Group", "fam" and "FAM" match only the first and "xyz" matches none
C12_Lookup ==
    LookupPrinted =>
        LET out == stdout[1].result
            q == kwargs[N_name].s
        IN  /\ out.query = q
            /\ out.count = Cardinality(MatchIndices(q))
            /\ Len(out.matches) = out.count
            /\ \E f \in [1..Len(out.matches) -> 1..Len(dialogs)] :
                   /\ \A i, j \in DOMAIN f : i < j => f[i] < f[j]
                   /\ {f[i] : i \in DOMAIN f} = MatchIndices(q)
                   /\ \A i \in DOMAIN f :
                          /\ out.matches[i].title = dialogs[f[i]].title
                          /\ out.matches[i].chat_id = dialogs[f[i]].id
                          /\ out.matches[i].type =
                                 (IF dialogs[f[i]].kind = "Channel" THEN "channel" ELSE "group")
            /\ (dialogs = <<D_family, D_work>> /\ q \in {Q_fam, Q_FAM}) =>
                   out.matches = <<[title |-> D_family.title, chat_id |-> 1, type |-> "group"]>>
            /\ (dialogs = <<D_family, D_work>> /\ q = Q_xyz) => out.matches = <<>>

\* "FAM" has been looked up among "Work Group" and "Family Chat" and only the second
\* dialog is in the output
C12_Witness ==
    /\ LookupPrinted /\ args = <<Q_FAM>> /\ dialogs = <<D_work, D_family>>
    /\ stdout[1].result.count = 1
    /\ stdout[1].result.matches[1].chat_id = 1

\* the line is an assignment to the variable n: it holds "=", is no comment, and
\* what stands before the first "=" is n, blanks aside
Assigns(line, n) ==
    LET l == Strip(line)
    IN  /\ Contains(l, "=")
        /\ l[1] # "#"
        /\ \E i \in 1..Len(l) :
               /\ l[i] = "=" /\ \A j \in 1..(i - 1) : l[j] # "="
               /\ Strip(SubSeq(l, 1, i - 1)) = Chars(n)

\* what stands after the first "=" of the line, blanks aside
AssignedValue(line) ==
    LET l == Strip(line)
        i == CHOOSE k \in 1..Len(l) : l[k] = "=" /\ \A j \in 1..(k - 1) : l[j] # "="
    IN  Strip(SubSeq(l, i + 1, Len(l)))

\* the one file that counts: the session-directory file if it exists, else the
\* base-directory file if it exists
TheEnvFile ==
    IF env_files.session.exists THEN <<"session">>
    ELSE IF env_files.base.exists THEN <<"base">> ELSE <<>>

\* the value of the variable n after loading, by the rule of the claim
ExpectedValue(n) ==
    IF environ0[n] # NoneV THEN environ0[n]
    ELSE IF TheEnvFile = <<>> THEN NoneV
    ELSE LET lines == env_files[TheEnvFile[1]].lines
             hits == {i \in 1..Len(lines) : Assigns(lines[i], n)}
         IN  IF hits = {} THEN NoneV
             ELSE StrV(AssignedValue(lines[CHOOSE i \in hits : \A j \in hits : i <= j]))

\* load_env has run
EnvLoaded == rpc \in {"check_credentials", "construct", "body", "finally"}

\* C13: load_env opens only the first existing file of (session-directory .env,
\* base-directory .env) and never the other; for each variable the first key=value
\* line of that file gives the value; a variable that was in the environment before
\* keeps its value; comments and lines without "=" change nothing
C13_EnvLoading ==
    /\ opened \in {<<>>, TheEnvFile}
    /\ EnvLoaded => opened = TheEnvFile
    /\ \/ environ = environ0
       \/ \A i \in 1..3 : environ[CredNames[i]] = ExpectedValue(CredNames[i])
    /\ EnvLoaded => \A i \in 1..3 : environ[CredNames[i]] = ExpectedValue(CredNames[i])

\* the session file set the id twice and the base file exists: the id is the first
\* value, the hash and the phone of the base file were not read
C13_Witness ==
    /\ EnvLoaded
    /\ env_files.session = EnvFile(<<Line_id, Line_id_blanks>>)
    /\ env_files.base.exists
    /\ environ0.TELEGRAM_API_ID = NoneV /\ environ0.TELEGRAM_API_HASH = NoneV
    /\ environ.TELEGRAM_API_ID = StrV(<<"7">>)
    /\ environ.TELEGRAM_API_HASH = NoneV
    /\ opened = <<"session">>

\* s is the first part of t
IsPrefix(s, t) == Len(s) <= Len(t) /\ SubSeq(t, 1, Len(s)) = s

\* check-session has printed an ok: true object
SessionPrinted ==
    /\ cmd_name = "check-session"
    /\ stdout # <<>> /\ stdout[1].ok

\* C14: check-session with the credentials set calls connect, then
\* is_user_authorized, then get_me only when authorized, then prints, then
\* disconnects, and never calls start; when authorized it prints ok: true,
\* authorized: true with the id and username of the user record, and when not
\* authorized it prints ok: true, authorized: false with a hint
C14_CheckSession ==
    cmd_name = "check-session" =>
        /\ IsPrefix(calls, <<"connect", "is_user_authorized", "get_me">>)
        /\ Len(calls) = 3 => authorized
        /\ disconnects = 1 => rpc = "exit"
        /\ SessionPrinted =>
               /\ Len(stdout) = 1
               /\ calls = (IF authorized THEN <<"connect", "is_user_authorized", "get_me">>
                           ELSE <<"connect", "is_user_authorized">>)
               /\ rpc \in {"finally", "exit"}
               /\ stdout[1].result.authorized = authorized
               /\ authorized =>
                      /\ me \in Users
                      /\ stdout[1].result.user_id = me.id
                      /\ stdout[1].result.username = me.username
                      /\ ~stdout[1].hint
               /\ ~authorized => stdout[1].hint
        \* once is_user_authorized has answered and get_me, if called, has returned,
        \* the object is printed and the client is disconnected
        /\ (rpc = "exit" /\ acquired /\ step = Len(Body(cmd_name))) =>
               SessionPrinted /\ disconnects = 1

\* an authorized session has been reported with the user's id and username, after
\* three calls, and the client is disconnected
C14_Witness ==
    /\ SessionPrinted /\ rpc = "exit" /\ disconnects = 1
    /\ stdout[1].result = [authorized |-> TRUE, user_id |-> 7, username |-> StrV(<<"a">>)]
    /\ calls = <<"connect", "is_user_authorized", "get_me">>

\* create-group has left its try body at the bot lookup: get_entity raised
BotLookupFailed ==
    /\ cmd_name = "create-group" /\ acquired
    /\ rpc \in {"finally", "exit"} /\ step = 2

\* the operation cmd_create_group, seen from its parameter bot_username: a failed
\* lookup prints one ok: false object that names the username, issues no create-chat
\* request and disconnects; a false bot_username means no lookup and an empty user
\* list
CreateGroupOperation ==
    cmd_name = "create-group" =>
        /\ BotLookupFailed =>
               /\ stdout = <<Json(FALSE, "Could not find user",
                                  LStrip(kwargs[N_bot_username].s, "@"), FALSE, "")>>
               /\ calls = <<"start", "get_entity">>
               /\ rpc = "exit" => disconnects = 1
        /\ (acquired /\ ~Truthy(kwargs[N_bot_username])) =>
               /\ \A i \in 1..Len(calls) : calls[i] # "get_entity"
               /\ users = <<>>
        /\ (acquired /\ Truthy(kwargs[N_bot_username])
              /\ \E i \in 1..Len(calls) : calls[i] = "CreateChatRequest") =>
               users = <<LStrip(kwargs[N_bot_username].s, "@")>>

\* the bot username the command line gives, as create-group <title> [bot] or as
\* --bot-username: a one-element sequence, or the empty one when none is given
GivenBot ==
    IF N_bot_username \in DOMAIN flags /\ flags[N_bot_username] # NoneV
    THEN <<LStrip(flags[N_bot_username].s, "@")>>
    ELSE IF Len(positional) >= 2 /\ positional[2] # <<>>
    THEN <<LStrip(positional[2], "@")>>
    ELSE <<>>

\* C19: create-group with a bot username whose entity lookup fails prints exactly one
\* JSON object, with ok: false and an error that names the username, never issues the
\* create-chat request, prints no ok: true object and disconnects the client; with
\* no bot username no entity lookup is made and the group is created with an empty
\* user list
C19_CreateGroup ==
    (cmd_name = "create-group" /\ acquired) =>
        /\ (GivenBot # <<>> /\ GivenBot[1] \notin KnownUsernames) =>
               /\ \A i \in 1..Len(calls) : calls[i] # "CreateChatRequest"
               /\ \A i \in 1..Len(stdout) : ~stdout[i].ok
               /\ (rpc = "exit" /\ step >= 2) =>
                      /\ stdout = <<Json(FALSE, "Could not find user", GivenBot[1],
                                         FALSE, "")>>
                      /\ disconnects = 1
        /\ GivenBot = <<>> =>
               /\ \A i \in 1..Len(calls) : calls[i] # "get_entity"
               /\ users = <<>>

\* the optional names of the command
OptionalNames(c) == {Defaults(c)[i][1] : i \in 1..Len(Defaults(c))}

\* C20: when main calls the operation, kwargs binds every required name, binds no
\* name that is not a required or optional name of the command, takes each value
\* from the flag of that name or else from the positional at the place of that name
\* (so an unknown flag and a surplus positional pass nothing), and passes the table
\* default for an optional name that neither a flag nor a positional supplied
C20_DispatchInvariant ==
    JustDispatched =>
        LET req == Required(cmd_name)
            opt == [i \in 1..Len(Defaults(cmd_name)) |-> Defaults(cmd_name)[i][1]]
            converted(k, v) == IF k = N_limit /\ v.t = "str" THEN IntV(PyInt(v.s)) ELSE v
        IN  /\ Len(positional) >= Len(req)
            /\ SeqRange(req) \subseteq DOMAIN kwargs
            /\ DOMAIN kwargs \subseteq SeqRange(req) \cup OptionalNames(cmd_name)
            /\ \A i \in 1..Len(req) :
                   kwargs[req[i]] = (IF req[i] \in DOMAIN flags THEN flags[req[i]]
                                     ELSE StrV(positional[i]))
            /\ \A i \in 1..Len(opt) :
                   (flags[opt[i]] = Defaults(cmd_name)[i][2]
                      /\ Len(positional) < Len(req) + i) =>
                       kwargs[opt[i]] = Defaults(cmd_name)[i][2]
            /\ \A i \in 1..Len(opt) :
                   flags[opt[i]] # Defaults(cmd_name)[i][2] =>
                       kwargs[opt[i]] = converted(opt[i], flags[opt[i]])

\* create-group a --limit 7 has been dispatched: the unknown flag is dropped and the
\* bot username is the default
C20_Witness ==
    /\ JustDispatched /\ cmd_name = "create-group" /\ args = <<T_a, T_limit, T_7>>
    /\ N_limit \in DOMAIN flags
    /\ kwargs = [k \in {N_title, N_bot_username} |->
                    IF k = N_title THEN StrV(T_a) ELSE NoneV]

-----------------------------------------------------------------------------
(* Properties of the Login Rendezvous Server *)

\* C4: the status state only moves waiting -> success or waiting -> error, and both
\* are terminal: no step takes it from success or from error to another state
C4_Monotonic ==
    [][/\ status.state = "success" => status'.state = "success"
       /\ status.state = "error" => status'.state = "error"]_vars

\* C5: when the background thread has ended because a step of telegram_login raised,
\* the status is error with that exception's message
C5_FailureSetsError ==
    (Dead /\ texc # "none") => status = [state |-> "error", message |-> Msg("Error", terr)]

\* the write of the k-th posted code happened while the thread was in wait_for_code
WrittenWhileWaiting(k) == Len(posted) >= k /\ posted[k].waiting

\* wait_for_code has returned the k-th posted code
Returned(k) ==
    /\ Len(posted) >= k
    /\ \E i \in 1..Len(delivered) : delivered[i] = [code |-> posted[k].code, wid |-> k]

\* each code returned is the non-empty code of one write, and the writes returned
\* come in the order they were made, none of them twice
NoStaleDelivery ==
    /\ \A i \in 1..Len(delivered) :
           /\ delivered[i].wid \in 1..Len(posted)
           /\ delivered[i].code = posted[delivered[i].wid].code
           /\ delivered[i].code # <<>>
    /\ \A i, j \in 1..Len(delivered) : i < j => delivered[i].wid < delivered[j].wid

MailboxHoldsCode == code_file.exists /\ code_file.content # <<>>

C9_OnePagePerRequest ==
    /\ pages <= 1
    /\ (mpc \in {"while_check", "for_check", "done"} /\ served + afterDeath > 0) => pages = 1

\* C10 as stated: the loop does not exit while the thread runs, and it exits after
\* exactly 10 requests accepted after the thread ended
C10_ExactlyTen ==
    /\ mpc = "done" => Dead
    /\ mpc = "done" => afterDeath = 10

\* C10 as amended: the loop does not exit while the thread runs; once is_alive() has
\* returned false it serves exactly 10 requests and exits; a request the while loop
\* was already waiting for when the thread ended is served before that, which makes
\* 11 requests accepted after the thread ended, and 10 otherwise
C10_TenAfterObserved ==
    /\ (mpc \in {"for_check", "done"} \/ phase = "for") => Dead
    /\ afterDeath <= (IF diedIdle THEN extra + 1 ELSE extra)
    /\ mpc = "done" => (extra = 10 /\ afterDeath = (IF diedIdle THEN 11 ELSE 10))

\* the loop has exited after 11 requests that came after the thread's end
C10_Witness == mpc = "done" /\ afterDeath = 11 /\ diedIdle

\* do_POST has looked at status["state"] once more
Polled == polls' = polls + 1

\* the handler has returned to the loop that called handle_request
HandlerReturned == mpc' \in {"while_check", "for_check"}

\* C15: a POST with a non-empty code writes the code and then polls the status state at
\* most 30 times; a poll that reads success renders the success page and returns, and
\* no other step renders it; a poll that reads error ends the polling; after the last
\* poll, or after the one that read error, the handler renders the form page with the
\* status as it is then, and returns
C15_PostPolling ==
    /\ [](polls <= 30 /\ (mpc = "post_poll" => polls < 30))
    /\ [](mpc = "post_render" => (polls = 30 \/ status.state = "error"))
    /\ [][/\ (mpc = "post_write" /\ mpc' # mpc) =>
               /\ posted' = Append(posted, [code |-> code, waiting |-> tpc \in WfcStates])
               /\ code # <<>> /\ polls = 0 /\ mpc' = "post_poll"
          /\ (Polled /\ status.state = "success") =>
               /\ page' = [kind |-> "success", state |-> "success",
                           message |-> status.message]
               /\ pages' = pages + 1
               /\ HandlerReturned
          /\ (Polled /\ status.state = "error") =>
               /\ mpc' = "post_render"
               /\ pages' = pages /\ page' = page
          /\ (Polled /\ status.state = "waiting") =>
               /\ mpc' = (IF polls' = 30 THEN "post_render" ELSE "post_poll")
               /\ pages' = pages /\ page' = page
          /\ (page'.kind = "success" /\ pages' = pages + 1) =>
               (Polled /\ status.state = "success")
          /\ (mpc = "post_render" /\ mpc' # mpc) =>
               /\ page' = [kind |-> "form", state |-> status.state,
                           message |-> status.message]
               /\ pages' = pages + 1
               /\ HandlerReturned]_vars

\* the window was exhausted while the status was waiting, and the handler rendered the
\* form page with that status
C15_Witness ==
    /\ mpc = "while_check" /\ polls = 30 /\ pages = 1 /\ code = C_1
    /\ page = [kind |-> "form", state |-> "waiting",
               message |-> Msg("Waiting for verification code...", "")]

\* the submitted codes that wait_for_code has not returned
Pending == {k \in 1..Len(posted) : ~Returned(k)}

\* neither thread is in the middle of its access to the mailbox: the startup cleanup
\* is done, do_POST is not between its open and its write, and wait_for_code is not
\* between its read and its remove
MailboxAtRest == mpc \notin {"cleanup", "post_write"} /\ tpc # "wfc_remove"

\* C16: the mailbox file exists if and only if exactly one submitted code has not been
\* returned by wait_for_code; so no submitted code is gone from the file without
\* having been returned, and a code that was returned is not in the file
C16_SingleSlot ==
    MailboxAtRest =>
        /\ code_file.exists <=> Cardinality(Pending) = 1
        /\ code_file.exists => code_file.wid \in Pending

\* the mailbox holds a code that no POST of this run wrote
HoldsEarlierCode == code_file.exists /\ code_file.content # <<>> /\ code_file.wid = 0

\* C17: once the background thread has been started or a request has been accepted,
\* the startup cleanup is behind and the mailbox holds no code of an earlier run; every
\* code wait_for_code returns is the code of a POST of this run
C17_StartupOrdering ==
    /\ (tpc # "unstarted" \/ served + afterDeath > 0 \/ posted # <<>>) =>
           (mpc # "cleanup" /\ ~HoldsEarlierCode)
    /\ \A i \in 1..Len(delivered) :
           /\ delivered[i].wid \in 1..Len(posted)
           /\ delivered[i].code = posted[delivered[i].wid].code

\* a file of an earlier run was there at startup, and wait_for_code has returned the
\* code of the first POST
C17_Witness == stale /\ delivered = <<[code |-> C_1, wid |-> 1]>> /\ tpc = "start"

\* a step of the main thread: the startup statements, the loops, the handlers
ForegroundStep == mpc' # mpc

\* a step of telegram_login or of wait_for_code
BackgroundStep == tpc' # tpc /\ mpc' = mpc

\* no handler step changes the status, and no step of the background thread creates
\* the mailbox file or changes its content: it leaves the file alone or deletes it
SingleWriter ==
    /\ ForegroundStep => status' = status
    /\ BackgroundStep => (code_file' = code_file \/ ~code_file'.exists)

\* the program variables of each thread are changed by that thread only, except that
\* the main thread starts the other one
OwnVariables ==
    /\ ForegroundStep =>
           /\ <<tcode, ncallbacks, texc, terr>>' = <<tcode, ncallbacks, texc, terr>>
           /\ tpc' # tpc => (mpc = "spawn" /\ tpc = "unstarted" /\ tpc' = "import")
    /\ BackgroundStep =>
           <<phase, extra, code, polls, pages, page>>' = <<phase, extra, code, polls, pages, page>>

\* C18 as stated: single writer per shared object, and the status and the mailbox file
\* are all that one thread's steps take from the other: in particular the step after
\* the while test is the same whether or not the background thread is alive
C18_SingleWriter ==
    [][/\ SingleWriter
       /\ OwnVariables
       /\ (mpc = "while_check" /\ ForegroundStep) =>
              \A alive \in BOOLEAN : mpc' = AfterWhileTest(alive)]_vars

\* C18 as amended: single writer per shared object; besides the status and the mailbox
\* file, the threads are connected by the thread object: the main thread starts the
\* background thread, and its while test reads whether that thread is alive, serving
\* requests while it is and going on to the last ten when it is not
C18_SingleWriterAmended ==
    [][/\ SingleWriter
       /\ OwnVariables
       /\ (mpc = "while_check" /\ ForegroundStep) =>
              mpc' = (IF tpc = "dead" THEN "for_check" ELSE "accept")]_vars

\* both threads have used both objects: a POST wrote a code that wait_for_code
\* returned and deleted, the thread set success, the handler rendered the success
\* page from it, and the while test has seen the thread ended
C18_Witness ==
    /\ page.kind = "success" /\ status.state = "success"
    /\ delivered # <<>> /\ ~code_file.exists
    /\ tpc = "dead" /\ mpc = "for_check"

====
